---------------------------- MODULE Spec2Model ----------------------------
(***************************************************************************)
(* Model of the site-diagnostics scripts: the robots.txt fetcher and       *)
(* parser (robots/robotsCheck.py), the sitemap batch check                 *)
(* (sitemap/checkForSitemap.py) and the single-URL probes                  *)
(* (performanceAnalyser.py, requests/checkWebsiteReachability*.py).        *)
(*                                                                         *)
(* Python strings are sequences of one-character strings, so that strip,   *)
(* lower, startswith, split and splitlines are computed character by       *)
(* character as the interpreter computes them.  Timing and size metrics of *)
(* a response (elapsed, content length, headers) are not modelled.         *)
(***************************************************************************)
EXTENDS Integers, Sequences, FiniteSets, TLC

VARIABLES prog, pc, url, content, idx, parsed_data, current_user_agent,
          file, sitemap_paths, results, gets, ret

vars == <<prog, pc, url, content, idx, parsed_data, current_user_agent,
          file, sitemap_paths, results, gets, ret>>

(***************************************************************************)
(* Bounds of the model.                                                    *)
(***************************************************************************)
\* longest robots.txt text, in lines
MaxLines == 3
\* longest sitemap-path file, in lines
MaxPaths == 2
\* how many times a single-URL probe function is called
MaxCalls == 2

(***************************************************************************)
(* Python's None, Optional values and str methods.                         *)
(***************************************************************************)
\* an Optional value is a sequence of length 0 (None) or 1
None == <<>>

Some(x) == <<x>>

Whitespace == {" ", "\t", "\r", "\n"}

UpperCase == <<"A", "B", "C", "D", "E", "F", "G", "H", "I", "J", "K", "L", "M",
               "N", "O", "P", "Q", "R", "S", "T", "U", "V", "W", "X", "Y", "Z">>

LowerCase == <<"a", "b", "c", "d", "e", "f", "g", "h", "i", "j", "k", "l", "m",
               "n", "o", "p", "q", "r", "s", "t", "u", "v", "w", "x", "y", "z">>

LowerChar(c) ==
  IF \E k \in 1..26 : UpperCase[k] = c
    THEN LowerCase[CHOOSE k \in 1..26 : UpperCase[k] = c]
    ELSE c

UpperChar(c) ==
  IF \E k \in 1..26 : LowerCase[k] = c
    THEN UpperCase[CHOOSE k \in 1..26 : LowerCase[k] = c]
    ELSE c

\* str.lower()
Lower(s) == [k \in 1..Len(s) |-> LowerChar(s[k])]

\* str.capitalize(): first character upper-cased, the rest lower-cased
Capitalize(s) == [k \in 1..Len(s) |-> IF k = 1 THEN UpperChar(s[k]) ELSE LowerChar(s[k])]

\* str.startswith(p)
StartsWith(s, p) == Len(s) >= Len(p) /\ SubSeq(s, 1, Len(p)) = p

RECURSIVE LStripChars(_, _)
\* str.lstrip(chars): every leading character of the set is removed
LStripChars(s, chars) ==
  IF s # <<>> /\ Head(s) \in chars THEN LStripChars(Tail(s), chars) ELSE s

RECURSIVE RStripChars(_, _)
\* str.rstrip(chars): every trailing character of the set is removed
RStripChars(s, chars) ==
  IF s # <<>> /\ s[Len(s)] \in chars
    THEN RStripChars(SubSeq(s, 1, Len(s) - 1), chars)
    ELSE s

\* str.strip()
Strip(s) == RStripChars(LStripChars(s, Whitespace), Whitespace)

\* index of the first occurrence of character c in s, 0 when there is none
FirstIndex(s, c) ==
  IF \E k \in 1..Len(s) : s[k] = c
    THEN CHOOSE k \in 1..Len(s) : s[k] = c /\ \A j \in 1..(k - 1) : s[j] # c
    ELSE 0

\* str.split(sep, 1): one or two parts
Split1(s, sep) ==
  LET k == FirstIndex(s, sep)
  IN  IF k = 0 THEN <<s>> ELSE <<SubSeq(s, 1, k - 1), SubSeq(s, k + 1, Len(s))>>

\* parts[-1]
Last(parts) == parts[Len(parts)]

RECURSIVE SplitLines(_)
\* str.splitlines(): the text cut at every newline, no empty last line
SplitLines(s) ==
  IF s = <<>> THEN <<>>
  ELSE LET k == FirstIndex(s, "\n")
       IN  IF k = 0 THEN <<s>>
           ELSE <<SubSeq(s, 1, k - 1)>> \o SplitLines(SubSeq(s, k + 1, Len(s)))

RECURSIVE JoinLines(_)
\* "\n".join(ls)
JoinLines(ls) ==
  IF ls = <<>> THEN <<>>
  ELSE IF Len(ls) = 1 THEN ls[1]
  ELSE ls[1] \o <<"\n">> \o JoinLines(Tail(ls))

(***************************************************************************)
(* String literals of the sources.                                         *)
(***************************************************************************)
S_sitemap == <<"s", "i", "t", "e", "m", "a", "p">>

S_user_agent == <<"u", "s", "e", "r", "-", "a", "g", "e", "n", "t">>

S_allow == <<"a", "l", "l", "o", "w">>

S_disallow == <<"d", "i", "s", "a", "l", "l", "o", "w">>

S_Allow == <<"A", "l", "l", "o", "w">>

S_RequestError == <<"R", "e", "q", "u", "e", "s", "t", " ", "e", "r", "r", "o", "r">>

S_RequestErrorPrefix == <<"R", "e", "q", "u", "e", "s", "t", " ", "e", "r", "r", "o", "r", ":", " ">>

S_HTTPError == <<"H", "T", "T", "P", " ", "e", "r", "r", "o", "r">>

S_HTTPErrorPrefix == <<"H", "T", "T", "P", " ", "e", "r", "r", "o", "r", ":", " ">>

S_robots_txt == <<"/", "r", "o", "b", "o", "t", "s", ".", "t", "x", "t">>

S_http == <<"h", "t", "t", "p", ":", "/", "/">>

S_https == <<"h", "t", "t", "p", "s", ":", "/", "/">>

\* str(exc) of an httpx.HTTPStatusError
S_StatusMessage == <<"s", "t", "a", "t", "u", "s">>

S_TimeoutMessage == <<"T", "i", "m", "e", "o", "u", "t", " ", "o", "c", "c", "u", "r", "r", "e", "d", " ", "w", "h", "i", "l", "e", " ", "t", "r", "y", "i", "n", "g", " ", "t", "o", " ", "r", "e", "a", "c", "h", " ", "t", "h", "e", " ", "w", "e", "b", "s", "i", "t", "e", ".">>

(***************************************************************************)
(* The inputs the model draws from.                                        *)
(***************************************************************************)
\* lines of a robots.txt text
LineSet == {
  <<"S", "i", "t", "e", "m", "a", "p", ":", " ", "s">>,
  <<"s", "i", "t", "e", "m", "a", "p">>,
  <<"U", "s", "e", "r", "-", "a", "g", "e", "n", "t", ":", " ", "a">>,
  <<"u", "s", "e", "r", "-", "a", "g", "e", "n", "t", ":">>,
  <<"A", "l", "l", "o", "w", ":", " ", "/", "p">>,
  <<" ", "D", "I", "S", "A", "L", "L", "O", "W", " ", ":", " ", "/", "Q", " ">>,
  <<"#", " ", "c">>,
  <<"H", "T", "T", "P", " ", "e", "r", "r", "o", "r">> }

Contents ==
  { JoinLines(ls) : ls \in UNION { [1..n -> LineSet] : n \in 0..MaxLines } }

\* base URLs given on the command line
BaseUrls == {
  <<"h", "t", "t", "p", ":", "/", "/", "e">>,
  <<"h", "t", "t", "p", ":", "/", "/", "e", "/", "/">>,
  <<"h", "t", "t", "p", "s", ":", "/", "/", "e", "x", "a", "m", "p", "l", "e", ".", "c", "o", "m", "/">>,
  <<"e", ".", "c", "o", "m">> }

\* str(exc) of an exception
Messages == { <<"m">>, <<"n">> }

\* final status codes of a response
Statuses == {200, 301, 404}

(***************************************************************************)
(* What one HTTP GET can do: answer with a response, or raise.  The        *)
(* exception classes are those of httpx and requests; a response carries   *)
(* its final status and, where the caller reads it, its text.              *)
(***************************************************************************)
HttpxClasses == {"TimeoutException", "ConnectError", "RemoteProtocolError",
                 "UnsupportedProtocol", "InvalidURL"}

\* httpx.RequestError is the base of the transport errors; httpx.InvalidURL
\* derives from Exception only
IsHttpxRequestError(class) ==
  class \in {"TimeoutException", "ConnectError", "RemoteProtocolError", "UnsupportedProtocol"}

\* the test of main on args.url: the URL names the http or https scheme
ValidUrl(u) == StartsWith(u, S_http) \/ StartsWith(u, S_https)

RequestsClasses == {"Timeout", "ConnectionError", "ChunkedEncodingError"}

\* requests.exceptions.Timeout
IsRequestsTimeout(class) == class = "Timeout"

\* requests.exceptions.RequestException is the base of every class above
IsRequestsRequestException(class) == class \in RequestsClasses

Response(status, text) == [kind |-> "response", status |-> status, text |-> text]

Raised(class, msg) == [kind |-> "raised", class |-> class, msg |-> msg]

\* the characters httpx refuses in a URL (ASCII control characters)
ControlChars == {"\t", "\r", "\n"}

\* the body of a response is read only by fetch_robots_txt, and only below
\* status 400: elsewhere the model leaves it empty
NoText == <<>>

\* the outcomes of httpx.get(u): a response (its text among texts), a
\* transport error (a RequestError), or InvalidURL when u holds a control
\* character; a URL with no http or https scheme is refused with
\* UnsupportedProtocol
HttpxOutcomes(u, texts) ==
  IF ~ValidUrl(u)
    THEN { Raised("UnsupportedProtocol", m) : m \in Messages }
    ELSE { Response(st, tx) : st \in Statuses, tx \in texts }
         \cup { Raised(c, m) : c \in {"TimeoutException", "ConnectError", "RemoteProtocolError"},
                              m \in Messages }
         \cup { Raised("InvalidURL", m) :
                  m \in IF \E k \in 1..Len(u) : u[k] \in ControlChars THEN Messages ELSE {} }

\* the outcomes of requests.get(u)
RequestsOutcomes(u) ==
  { Response(st, NoText) : st \in Statuses }
  \cup { Raised(c, m) : c \in RequestsClasses, m \in Messages }

ReasonPhrase(status) ==
  CASE status = 200 -> "OK"
    [] status = 301 -> "Moved Permanently"
    [] OTHER -> "Not Found"

(***************************************************************************)
(* robots/robotsCheck.py                                                   *)
(***************************************************************************)
\* Response.raise_for_status(): raises httpx.HTTPStatusError for a 4xx or 5xx
\* status; for a 3xx status it raises or not depending on the httpx release
\* (strict)
RaisesForStatus(status, strict) == status >= 400 \/ (strict /\ status >= 300)

\* robots_url of fetch_robots_txt
RobotsUrl(u) == RStripChars(u, {"/"}) \o S_robots_txt

\* the str that fetch_robots_txt returns for an outcome of httpx.get
\* (an exception that is no RequestError leaves the function)
FetchRobotsText(outcome, strict) ==
  IF outcome.kind = "raised"
    THEN S_RequestErrorPrefix \o outcome.msg
    ELSE IF RaisesForStatus(outcome.status, strict)
      THEN S_HTTPErrorPrefix \o S_StatusMessage
      ELSE outcome.text

\* Rules is a dict: a function whose domain is the set of agent tokens
EmptyRules == [a \in {} |-> [Allow |-> <<>>, Disallow |-> <<>>]]

NewAgentRules == [Allow |-> <<>>, Disallow |-> <<>>]

\* Rules[agent] = {"Allow": [], "Disallow": []}
SetAgentEntry(rules, agent) ==
  [a \in DOMAIN rules \cup {agent} |-> IF a = agent THEN NewAgentRules ELSE rules[a]]

\* Rules[agent][directive.capitalize()].append(path)
AppendRule(rules, agent, directive, path) ==
  IF Capitalize(directive) = S_Allow
    THEN [rules EXCEPT ![agent].Allow = Append(@, path)]
    ELSE [rules EXCEPT ![agent].Disallow = Append(@, path)]

\* bool(current_user_agent): None and "" are falsy
Truthy(cua) == cua # None /\ cua[1] # <<>>

\* one iteration of the for loop of parse_robots_txt on one raw line
ParseLine(pd, cua, raw) ==
  LET line == Strip(raw)
  IN  IF line = <<>> \/ StartsWith(line, <<"#">>)
        THEN [pd |-> pd, cua |-> cua]
      ELSE IF StartsWith(Lower(line), S_sitemap)
        THEN [pd |-> [pd EXCEPT !.Sitemaps = Append(@, Strip(Last(Split1(line, ":"))))],
              cua |-> cua]
      ELSE IF StartsWith(Lower(line), S_user_agent)
        THEN LET agent == Strip(Last(Split1(line, ":")))
             IN  [pd |-> [pd EXCEPT !.Rules = SetAgentEntry(@, agent)],
                  cua |-> Some(agent)]
      ELSE IF Truthy(cua) /\ FirstIndex(line, ":") # 0
        THEN LET parts == Split1(line, ":")
                 directive == Strip(parts[1])
                 path == Strip(parts[2])
             IN  IF Lower(directive) \in {S_allow, S_disallow}
                   THEN [pd |-> [pd EXCEPT !.Rules = AppendRule(@, cua[1], directive, path)],
                         cua |-> cua]
                   ELSE [pd |-> pd, cua |-> cua]
      ELSE [pd |-> pd, cua |-> cua]

RobotsProgs == {"parse_robots_txt", "check_robots_txt"}

\* check_robots_txt, lines 106-109: fetch, then the test on the text's prefix
FetchRobots ==
  /\ prog = "check_robots_txt"
  /\ pc = "start"
  /\ \E outcome \in HttpxOutcomes(RobotsUrl(url), Contents), strict \in BOOLEAN :
       /\ (outcome.kind = "response" /\ outcome.status >= 400) => outcome.text = NoText
       /\ gets' = Append(gets, [url |-> RobotsUrl(url), outcome |-> outcome])
       /\ IF outcome.kind = "raised" /\ ~IsHttpxRequestError(outcome.class)
            THEN /\ pc' = "raised"
                 /\ UNCHANGED <<content, ret>>
            ELSE LET c == FetchRobotsText(outcome, strict)
                 IN  /\ content' = c
                     /\ IF StartsWith(c, S_RequestError) \/ StartsWith(c, S_HTTPError)
                          THEN /\ pc' = "done"
                               /\ ret' = [kind |-> "message", text |-> c]
                          ELSE /\ pc' = "parsing"
                               /\ UNCHANGED ret
  /\ UNCHANGED <<prog, url, idx, parsed_data, current_user_agent,
                 file, sitemap_paths, results>>

\* parse_robots_txt, lines 46-63: the loop body on the next line
ParseNextLine ==
  /\ prog \in RobotsProgs
  /\ pc = "parsing"
  /\ idx <= Len(SplitLines(content))
  /\ LET r == ParseLine(parsed_data, current_user_agent, SplitLines(content)[idx])
     IN  /\ parsed_data' = r.pd
         /\ current_user_agent' = r.cua
  /\ idx' = idx + 1
  /\ UNCHANGED <<prog, pc, url, content, file, sitemap_paths, results, gets, ret>>

\* parse_robots_txt, line 65, and check_robots_txt, line 112: the parsed
\* document is returned (check_robots_txt renders it with generate_report)
ReturnParsed ==
  /\ prog \in RobotsProgs
  /\ pc = "parsing"
  /\ idx > Len(SplitLines(content))
  /\ pc' = "done"
  /\ ret' = [kind |-> "report", data |-> parsed_data]
  /\ UNCHANGED <<prog, url, content, idx, parsed_data, current_user_agent,
                 file, sitemap_paths, results, gets>>

(***************************************************************************)
(* sitemap/checkForSitemap.py                                              *)
(***************************************************************************)
S_UnknownError == <<"U", "n", "k", "n", "o", "w", "n", " ", "E", "r", "r", "o", "r">>

\* lines of the file of potential sitemap paths
PathLines == {
  <<" ", "/", "/", "s">>,
  <<" ">>,
  <<"/", "s", "i", "t", "e", "m", "a", "p", ".", "x", "m", "l">>,
  <<"s", "\t", "x">> }

\* the file: None when it does not exist
Files == {None} \cup { Some(ls) : ls \in UNION { [1..n -> PathLines] : n \in 0..MaxPaths } }

RECURSIVE NonBlankStripped(_)
\* [line.strip() for line in file if line.strip()]
NonBlankStripped(ls) ==
  IF ls = <<>> THEN <<>>
  ELSE IF Strip(Head(ls)) # <<>>
    THEN <<Strip(Head(ls))>> \o NonBlankStripped(Tail(ls))
    ELSE NonBlankStripped(Tail(ls))

LoadKeepingBlankLines(f) ==
  IF f = None THEN <<>> ELSE [k \in 1..Len(f[1]) |-> Strip(f[1][k])]

\* load_potential_sitemaps: [] when the file cannot be read
LoadPotentialSitemaps(f) == IF f = None THEN <<>> ELSE NonBlankStripped(f[1])

FullUrlUnstripped(base_url, path) == base_url \o <<"/">> \o path

\* full_url of check_sitemap
FullUrl(base_url, path) ==
  RStripChars(base_url, {"/"}) \o <<"/">> \o LStripChars(path, {"/"})

\* the dict check_sitemap returns for an outcome of httpx.get that it handles
CheckSitemap(base_url, path, outcome) ==
  IF outcome.kind = "response"
    THEN [url |-> FullUrl(base_url, path),
          reachable |-> (outcome.status = 200),
          status_code |-> outcome.status,
          reason |-> ReasonPhrase(outcome.status)]
    ELSE [url |-> FullUrl(base_url, path),
          reachable |-> FALSE,
          error |-> outcome.msg]

AppendResultInFront(rs, r) == <<r>> \o rs

\* results.append(r)
AppendResult(rs, r) == Append(rs, r)

\* what generate_report prints for one result
ReportEntry(r) ==
  IF r.reachable
    THEN [url |-> r.url, status |-> "Reachable",
          status_code |-> r.status_code, reason |-> r.reason]
    ELSE [url |-> r.url, status |-> "Not Reachable",
          error |-> IF "error" \in DOMAIN r THEN r.error ELSE S_UnknownError]

GenerateReport(rs) == [k \in 1..Len(rs) |-> ReportEntry(rs[k])]

\* main, lines 106-115: the URL is validated and the paths are loaded
MainLoad ==
  /\ prog = "checkForSitemap"
  /\ pc = "start"
  /\ IF ~ValidUrl(url)
       THEN pc' = "invalid" /\ UNCHANGED sitemap_paths
       ELSE /\ sitemap_paths' = LoadPotentialSitemaps(file)
            /\ pc' = IF sitemap_paths' = <<>> THEN "nopaths" ELSE "loop"
  /\ UNCHANGED <<prog, url, content, idx, parsed_data, current_user_agent,
                 file, results, gets, ret>>

\* main, lines 119-120: one iteration of the loop, a call of check_sitemap
CheckNextPath ==
  /\ prog = "checkForSitemap"
  /\ pc = "loop"
  /\ idx <= Len(sitemap_paths)
  /\ \E outcome \in HttpxOutcomes(FullUrl(url, sitemap_paths[idx]), {NoText}) :
       /\ gets' = Append(gets, [url |-> FullUrl(url, sitemap_paths[idx]), outcome |-> outcome])
       /\ IF outcome.kind = "raised" /\ ~IsHttpxRequestError(outcome.class)
            THEN pc' = "raised" /\ UNCHANGED <<results, idx>>
            ELSE /\ results' = AppendResult(results, CheckSitemap(url, sitemap_paths[idx], outcome))
                 /\ idx' = idx + 1
                 /\ pc' = pc
  /\ UNCHANGED <<prog, url, content, parsed_data, current_user_agent,
                 file, sitemap_paths, ret>>

\* main, line 123: the report of all results
ReportSitemaps ==
  /\ prog = "checkForSitemap"
  /\ pc = "loop"
  /\ idx > Len(sitemap_paths)
  /\ pc' = "done"
  /\ ret' = [kind |-> "report", data |-> GenerateReport(results)]
  /\ UNCHANGED <<prog, url, content, idx, parsed_data, current_user_agent,
                 file, sitemap_paths, results, gets>>

InitSitemap ==
  /\ prog = "checkForSitemap"
  /\ pc = "start"
  /\ url \in BaseUrls
  /\ file \in Files
  /\ content = <<>>
  /\ idx = 1
  /\ parsed_data = [Sitemaps |-> <<>>, Rules |-> EmptyRules]
  /\ current_user_agent = None
  /\ sitemap_paths = <<>>
  /\ results = <<>>
  /\ gets = <<>>
  /\ ret = [kind |-> "none"]

(***************************************************************************)
(* performanceAnalyser.py and requests/checkWebsiteReachability*.py: the   *)
(* probe functions, each called up to MaxCalls times on URLs that main     *)
(* accepts.                                                                *)
(***************************************************************************)
\* status_code of the dict fetch_url_details returns on a RequestError (None)
NoStatus == 0

ProbeProgs == {"fetch_url_details", "checkWebsiteReachabilityWithAgent",
               "checkWebsiteReachabilityNoUseragent"}

ProbeUrls == { u \in BaseUrls : ValidUrl(u) }

\* where a redirect leads: str(response.url) after one followed redirect
RedirectTarget == <<"h", "t", "t", "p", "s", ":", "/", "/", "e", "x", "a", "m", "p", "l", "e", ".", "c", "o", "m", "/", "h", "o", "m", "e">>

\* the dict fetch_url_details returns for an outcome of client.get that it
\* handles; redirects are followed, so a response carries its final URL and
\* the number of redirects followed
FetchUrlDetails(u, outcome) ==
  IF outcome.kind = "response"
    THEN [status_code |-> outcome.status,
          final_url |-> outcome.url,
          redirect_count |-> outcome.history]
    ELSE [status_code |-> NoStatus, final_url |-> u, redirect_count |-> 0,
          error |-> outcome.msg]

\* the dict checkWebsiteReachability returns (both scripts)
CheckWebsiteReachability(u, outcome) ==
  IF outcome.kind = "response"
    THEN [url |-> u, reachable |-> TRUE,
          status_code |-> outcome.status, reason |-> ReasonPhrase(outcome.status)]
    ELSE IF IsRequestsTimeout(outcome.class)
      THEN [url |-> u, reachable |-> FALSE, error |-> S_TimeoutMessage]
      ELSE [url |-> u, reachable |-> FALSE, error |-> outcome.msg]

\* performanceAnalyser.fetch_url_details(u, headers)
CallFetchUrlDetails ==
  /\ prog = "fetch_url_details"
  /\ pc = "start"
  /\ Len(gets) < MaxCalls
  /\ \E u \in ProbeUrls :
       \E o \in HttpxOutcomes(u, {NoText}), redirects \in 0..1 :
         LET outcome == IF o.kind = "response"
                          THEN [kind |-> "response", status |-> o.status, text |-> o.text,
                                url |-> IF redirects = 0 THEN u ELSE RedirectTarget,
                                history |-> redirects]
                          ELSE o
         IN  /\ url' = u
             /\ gets' = Append(gets, [url |-> u, outcome |-> outcome])
             /\ IF outcome.kind = "raised" /\ ~IsHttpxRequestError(outcome.class)
                  THEN pc' = "raised" /\ UNCHANGED results
                  ELSE pc' = pc /\ results' = AppendResult(results, FetchUrlDetails(u, outcome))
  /\ UNCHANGED <<prog, content, idx, parsed_data, current_user_agent,
                 file, sitemap_paths, ret>>

\* checkWebsiteReachability(u, user_agent)
CallReachabilityWithAgent ==
  /\ prog = "checkWebsiteReachabilityWithAgent"
  /\ pc = "start"
  /\ Len(gets) < MaxCalls
  /\ \E u \in ProbeUrls :
       \E outcome \in RequestsOutcomes(u) :
         /\ url' = u
         /\ gets' = Append(gets, [url |-> u, outcome |-> outcome])
         /\ IF outcome.kind = "raised" /\ ~IsRequestsRequestException(outcome.class)
              THEN pc' = "raised" /\ UNCHANGED results
              ELSE pc' = pc /\ results' = AppendResult(results, CheckWebsiteReachability(u, outcome))
  /\ UNCHANGED <<prog, content, idx, parsed_data, current_user_agent,
                 file, sitemap_paths, ret>>

\* checkWebsiteReachability(u)
CallReachabilityNoUseragent ==
  /\ prog = "checkWebsiteReachabilityNoUseragent"
  /\ pc = "start"
  /\ Len(gets) < MaxCalls
  /\ \E u \in ProbeUrls :
       \E outcome \in RequestsOutcomes(u) :
         /\ url' = u
         /\ gets' = Append(gets, [url |-> u, outcome |-> outcome])
         /\ IF outcome.kind = "raised" /\ ~IsRequestsRequestException(outcome.class)
              THEN pc' = "raised" /\ UNCHANGED results
              ELSE pc' = pc /\ results' = AppendResult(results, CheckWebsiteReachability(u, outcome))
  /\ UNCHANGED <<prog, content, idx, parsed_data, current_user_agent,
                 file, sitemap_paths, ret>>

InitProbe ==
  /\ prog \in ProbeProgs
  /\ pc = "start"
  /\ url = <<>>
  /\ file = None
  /\ content = <<>>
  /\ idx = 1
  /\ parsed_data = [Sitemaps |-> <<>>, Rules |-> EmptyRules]
  /\ current_user_agent = None
  /\ sitemap_paths = <<>>
  /\ results = <<>>
  /\ gets = <<>>
  /\ ret = [kind |-> "none"]

InitRobots ==
  /\ prog \in RobotsProgs
  /\ IF prog = "parse_robots_txt"
       THEN pc = "parsing" /\ content \in Contents /\ url = <<>>
       ELSE pc = "start" /\ content = <<>> /\ url \in BaseUrls
  /\ idx = 1
  /\ parsed_data = [Sitemaps |-> <<>>, Rules |-> EmptyRules]
  /\ current_user_agent = None
  /\ file = None
  /\ sitemap_paths = <<>>
  /\ results = <<>>
  /\ gets = <<>>
  /\ ret = [kind |-> "none"]

Init == InitRobots \/ InitSitemap \/ InitProbe

Next ==
  \/ FetchRobots
  \/ ParseNextLine
  \/ ReturnParsed
  \/ MainLoad
  \/ CheckNextPath
  \/ ReportSitemaps
  \/ CallFetchUrlDetails
  \/ CallReachabilityWithAgent
  \/ CallReachabilityNoUseragent

Spec == Init /\ [][Next]_vars

(***************************************************************************)
(* The vocabulary of the properties: what the specification calls a        *)
(* directive line, stated on the text and not on the parser's tests.       *)
(***************************************************************************)
\* the line has a colon and the text before its first colon is the key,
\* whatever the case of its letters
HasKey(raw, key) ==
  LET line == Strip(raw)
  IN  /\ \E k \in 1..Len(line) : line[k] = ":"
      /\ Lower(Strip(Split1(line, ":")[1])) = key

\* everything after the first colon, trimmed
ValueOf(raw) == Strip(Split1(Strip(raw), ":")[2])

RECURSIVE KeyedValues(_, _)
\* the values of the lines of ls that have the key, in file order
KeyedValues(ls, key) ==
  IF ls = <<>> THEN <<>>
  ELSE IF HasKey(Head(ls), key)
    THEN <<ValueOf(Head(ls))>> \o KeyedValues(Tail(ls), key)
    ELSE KeyedValues(Tail(ls), key)

RECURSIVE AgentAt(_, _)
\* the current agent when line k is read: the value of the last user-agent
\* line before it, None when there is none
AgentAt(ls, k) ==
  IF k <= 1 THEN None
  ELSE IF HasKey(ls[k - 1], S_user_agent) THEN Some(ValueOf(ls[k - 1]))
  ELSE AgentAt(ls, k - 1)

RECURSIVE RuleValues(_, _, _, _)
\* the values of the lines 1..k of ls that have the key and were read while
\* agent was the current agent, in file order
RuleValues(ls, k, agent, key) ==
  IF k = 0 THEN <<>>
  ELSE IF HasKey(ls[k], key) /\ AgentAt(ls, k) = Some(agent)
    THEN Append(RuleValues(ls, k - 1, agent, key), ValueOf(ls[k]))
    ELSE RuleValues(ls, k - 1, agent, key)

ParseFinished == prog = "parse_robots_txt" /\ pc = "done"

\* C1: after parsing, the Allow and the Disallow list of every (non-empty)
\* agent token hold the values of all the allow and disallow lines read while
\* that token was the current agent, those before a later repetition of its
\* user-agent line included
C1_ReopenedAgentKeepsRules ==
  ParseFinished =>
    \A agent \in DOMAIN parsed_data.Rules :
      agent # <<>> =>
        LET ls == SplitLines(content)
        IN  /\ parsed_data.Rules[agent].Allow = RuleValues(ls, Len(ls), agent, S_allow)
            /\ parsed_data.Rules[agent].Disallow = RuleValues(ls, Len(ls), agent, S_disallow)

\* C2: after parsing, Sitemaps is the file-order sequence of the values of the
\* lines whose key is sitemap, and of no other line
C2_SitemapsAreTheSitemapLines ==
  ParseFinished => parsed_data.Sitemaps = KeyedValues(SplitLines(content), S_sitemap)

\* C3: check_robots_txt parses exactly when httpx.get answered with a status
\* below 400, and then what it parses is the body of the response
C3_ParsedIffFetched ==
  (prog = "check_robots_txt" /\ pc \in {"parsing", "done"}) =>
    LET o == gets[1].outcome
        fetched == o.kind = "response" /\ o.status < 400
        parsed == pc = "parsing" \/ ret.kind = "report"
    IN  /\ fetched <=> parsed
        /\ parsed => content = o.text

\* the outcome of the k-th request and the k-th result agree
ResultOfOutcome(r, o) ==
  IF o.kind = "response"
    THEN "status_code" \in DOMAIN r /\ r.status_code = o.status
    ELSE "error" \in DOMAIN r /\ r.error = o.msg

\* C4: the k-th result of the batch is the result of probing the k-th path,
\* whatever the outcomes were, and the report is written only when every path
\* has been probed, with one entry per path in the order of the paths
C4_ResultsInPathOrder ==
  prog = "checkForSitemap" =>
    /\ Len(results) <= Len(sitemap_paths)
    /\ \A k \in 1..Len(results) :
         /\ results[k].url = FullUrl(url, sitemap_paths[k])
         /\ gets[k].url = results[k].url
         /\ ResultOfOutcome(results[k], gets[k].outcome)
    /\ ret.kind = "report" =>
         /\ Len(results) = Len(sitemap_paths)
         /\ Len(gets) = Len(sitemap_paths)
         /\ Len(ret.data) = Len(sitemap_paths)
         /\ \A k \in 1..Len(sitemap_paths) : ret.data[k].url = FullUrl(url, sitemap_paths[k])

\* C4 witness: a finished batch of two different paths, the first probe
\* failed and the second answered
C4_Witness ==
  /\ prog = "checkForSitemap"
  /\ pc = "done"
  /\ Len(results) = 2
  /\ results[1].url # results[2].url
  /\ gets[1].outcome.kind = "raised"
  /\ gets[2].outcome.kind = "response"

\* C5: a probe that fails never aborts the batch: every request that raised
\* has a failure result at its position, and the batch does not end on an
\* exception
C5_FailedProbeNeverAborts ==
  prog = "checkForSitemap" =>
    /\ pc # "raised"
    /\ \A k \in 1..Len(gets) :
         gets[k].outcome.kind = "raised" =>
           /\ k <= Len(results)
           /\ results[k].reachable = FALSE
           /\ "error" \in DOMAIN results[k]

\* full is base without its trailing slashes, one slash, and path without its
\* leading slashes
JoinedByOneSlash(base, path, full) ==
  \E n \in 0..Len(base), m \in 0..Len(path) :
    /\ \A j \in (n + 1)..Len(base) : base[j] = "/"
    /\ \A j \in 1..m : path[j] = "/"
    /\ n = 0 \/ base[n] # "/"
    /\ m = Len(path) \/ path[m + 1] # "/"
    /\ full = SubSeq(base, 1, n) \o <<"/">> \o SubSeq(path, m + 1, Len(path))

ExampleBase == <<"h", "t", "t", "p", "s", ":", "/", "/", "e", "x", "a", "m", "p", "l", "e", ".", "c", "o", "m", "/">>

ExamplePath == <<"/", "s", "i", "t", "e", "m", "a", "p", ".", "x", "m", "l">>

ExampleUrl == <<"h", "t", "t", "p", "s", ":", "/", "/", "e", "x", "a", "m", "p", "l", "e", ".", "c", "o", "m", "/", "s", "i", "t", "e", "m", "a", "p", ".", "x", "m", "l">>

\* C6: every URL the sitemap check requests is the base and the path joined
\* by exactly one slash, the example of the specification included, and the
\* robots URL is the base joined in the same way with robots.txt
C6_JoinedByExactlyOneSlash ==
  /\ prog = "checkForSitemap" =>
       \A k \in 1..Len(gets) :
         /\ JoinedByOneSlash(url, sitemap_paths[k], gets[k].url)
         /\ (url = ExampleBase /\ sitemap_paths[k] = ExamplePath) => gets[k].url = ExampleUrl
  /\ prog = "check_robots_txt" =>
       \A k \in 1..Len(gets) :
         JoinedByOneSlash(url, <<"r", "o", "b", "o", "t", "s", ".", "t", "x", "t">>, gets[k].url)

\* C6 witness: the example of the specification has been requested
C6_Witness ==
  /\ prog = "checkForSitemap"
  /\ url = ExampleBase
  /\ \E k \in 1..Len(gets) : sitemap_paths[k] = ExamplePath /\ gets[k].url = ExampleUrl

\* C7: whenever the server answered, with any status, the result carries the
\* status, holds no error message and is not marked unreachable
C7_AnsweredMeansSuccess ==
  \A k \in 1..Len(results) :
    gets[k].outcome.kind = "response" =>
      /\ results[k].status_code = gets[k].outcome.status
      /\ "error" \notin DOMAIN results[k]
      /\ "reachable" \in DOMAIN results[k] => results[k].reachable

\* the file names no candidate path: it is missing, or all its lines are
\* blank
NoCandidates(f) ==
  f = None \/ \A k \in 1..Len(f[1]) : \A j \in 1..Len(f[1][k]) : f[1][k][j] \in Whitespace

\* C8: when there is no candidate path, the list of paths is empty, no
\* request is issued and there is no result
C8_EmptyListNoRequest ==
  prog = "checkForSitemap" =>
    /\ (pc # "start" /\ ValidUrl(url) /\ NoCandidates(file)) => sitemap_paths = <<>>
    /\ sitemap_paths = <<>> =>
         /\ gets = <<>>
         /\ results = <<>>
         /\ pc \in {"start", "invalid", "nopaths"}

\* C8 witness: the check has ended on a file of blank lines only
C8_Witness ==
  /\ prog = "checkForSitemap"
  /\ pc = "nopaths"
  /\ file # None
  /\ Len(file[1]) = MaxPaths
  /\ gets = <<>>

\* C9: once line k has been read, if it is an allow or disallow line and a
\* user-agent line came before it (whatever its value), its value is the
\* last entry of the list of the current agent; and as long as no user-agent
\* line has been read, Rules has no entry
C9_RuleAppendedToCurrentAgent ==
  (prog = "parse_robots_txt" /\ idx > 1) =>
    LET ls == SplitLines(content)
        k == idx - 1
        agent == AgentAt(ls, k)
        rules == parsed_data.Rules
    IN  /\ (agent # None /\ HasKey(ls[k], S_allow)) =>
             /\ agent[1] \in DOMAIN rules
             /\ rules[agent[1]].Allow # <<>>
             /\ Last(rules[agent[1]].Allow) = ValueOf(ls[k])
        /\ (agent # None /\ HasKey(ls[k], S_disallow)) =>
             /\ agent[1] \in DOMAIN rules
             /\ rules[agent[1]].Disallow # <<>>
             /\ Last(rules[agent[1]].Disallow) = ValueOf(ls[k])
        /\ (\A j \in 1..k : ~HasKey(ls[j], S_user_agent)) => DOMAIN rules = {}

\* the cause of a transport failure
Cause(class) ==
  CASE class \in {"TimeoutException", "Timeout"} -> "Timeout"
    [] class \in {"ConnectError", "ConnectionError"} -> "ConnectionError"
    [] class \in {"RemoteProtocolError", "ChunkedEncodingError"} -> "ProtocolError"
    [] OTHER -> "Other"

\* the URL a result of a probe function keeps
UrlOf(r) == IF "url" \in DOMAIN r THEN r.url ELSE r.final_url

\* C10: a failure result keeps the request URL, and two probes of one URL
\* that fail for different causes return results that differ (in their
\* failure kind)
C10_FailureKindsDistinguished ==
  prog \in ProbeProgs =>
    /\ \A k \in 1..Len(results) :
         gets[k].outcome.kind = "raised" => UrlOf(results[k]) = gets[k].url
    /\ \A i, j \in 1..Len(results) :
         ( /\ gets[i].outcome.kind = "raised"
           /\ gets[j].outcome.kind = "raised"
           /\ gets[i].url = gets[j].url
           /\ Cause(gets[i].outcome.class) # Cause(gets[j].outcome.class) )
         => results[i] # results[j]

=============================================================================
